---- MODULE Spec2Model ----
(***************************************************************************)
(* OpenRCT2 network framing layer: NetworkPacket (body accessors, read     *)
(* cursor, auth allow-list) and NetworkConnection (inbound reassembly,     *)
(* outbound queue, partial sends, liveness window, traffic statistics).    *)
(*                                                                         *)
(* The socket is modelled as a loopback byte pipe: every byte SendData     *)
(* accepts is appended to `wire` (the history of what reached the          *)
(* transport) and to `inStream` (what ReceiveData may still deliver), so   *)
(* that the receive path can be fed with the send path's own output.       *)
(***************************************************************************)
EXTENDS Integers, Sequences, FiniteSets, TLC

(***************************************************************************)
(* Program constants                                                       *)
(***************************************************************************)
\* sizeof(PacketHeader): uint16_t Size + uint32_t Id, packed
HeaderSize == 6
\* sizeof(header.Id)
IdSize == 4
NetworkBufferSize == 65536
NETWORK_DISCONNECT_REASON_BUFFER_SIZE == 256
\* ReceivedPacketRecently: the timeout window
TimeoutTicks == 7000

\* one more than the largest uint16_t
Pow16 == 2 ^ 16

(***************************************************************************)
(* Bounds of the model                                                     *)
(***************************************************************************)
\* packets QueuePacket accepts in one behaviour
MaxQueued == 3
\* packets QueuePacket accepts in one behaviour of the round trip
MaxRoundTripPackets == 2
\* longest body the accessor specification builds
MaxData == 4
\* packets QueuePacket accepts in one behaviour of the drain specification
MaxDrainPackets == 2
\* packets QueuePacket accepts in one behaviour of the send-call specification
MaxSendPackets == 2
\* packets QueuePacket accepts in one behaviour of the disconnect specification
MaxSessionPackets == 1
\* packets QueuePacket accepts in one behaviour of the statistics specification
MaxStatsPackets == 1
\* the clock stops advancing here
MaxTicks == 14004
\* ReadPacket is not called any more once this many bytes were counted as received
MaxRecvBytes == 14

\* byte values Write/WriteString append in the accessor specification
BodyBytes == {0, 97}
\* how far the clock advances between two calls
TickSteps == {3500, 3501}
\* body lengths of the size-field specification: small ones and the ones
\* around the 16-bit limit
ProbeLengths == (0 .. 40) \cup (65500 .. 65540)

(***************************************************************************)
(* Helpers                                                                 *)
(***************************************************************************)
Min(a, b) == IF a < b THEN a ELSE b

IsPrefix(s, t) == Len(s) <= Len(t) /\ SubSeq(t, 1, Len(s)) = s

Drop(s, k) == SubSeq(s, k + 1, Len(s))

Take(s, k) == SubSeq(s, 1, k)

Reverse(s) == [i \in 1 .. Len(s) |-> s[Len(s) + 1 - i]]

\* sequences over S of length 0..n
RECURSIVE SeqsUpTo(_, _)
SeqsUpTo(S, n) ==
    IF n = 0 THEN {<<>>}
    ELSE LET shorter == SeqsUpTo(S, n - 1)
         IN shorter \cup {Append(s, x) : s \in {t \in shorter : Len(t) = n - 1}, x \in S}

\* NetworkCommand enumerators (NetworkTypes.h)
NetworkCommand ==
    [Auth |-> 0, Map |-> 1, Chat |-> 2, Tick |-> 4, PlayerList |-> 5, Ping |-> 6,
     PingList |-> 7, DisconnectMessage |-> 8, GameInfo |-> 9, ShowError |-> 10,
     GroupList |-> 11, Event |-> 12, Token |-> 13, ObjectsList |-> 14,
     MapRequest |-> 15, GameAction |-> 16, PlayerInfo |-> 17,
     RequestGameState |-> 18, GameState |-> 19, Scripts |-> 20, Heartbeat |-> 21]

CommandIds == {NetworkCommand[n] : n \in DOMAIN NetworkCommand}

\* Ids the default-constructed InboundPacket may start with (its member
\* initialiser is in NetworkPacket.h)
InboundInitialIds == {NetworkCommand.Auth, NetworkCommand.Heartbeat}

\* packets the session layer hands to QueuePacket: a Ping without body,
\* which needs no auth, and a GameAction with one body byte, which does
QueueInputs ==
    {[command |-> NetworkCommand.Ping, body |-> <<>>],
     [command |-> NetworkCommand.GameAction, body |-> <<97>>]}

\* packets of the three traffic groups: Ping (Base), GameAction (Commands),
\* Map (MapData), of wire sizes 6, 7 and 8
StatsInputs ==
    QueueInputs \cup {[command |-> NetworkCommand.Map, body |-> <<97, 98>>]}

\* NetworkAuth values a caller assigns to AuthStatus
AuthStates == {"None", "Ok"}

(***************************************************************************)
(* Byte order                                                              *)
(***************************************************************************)
U16BE(v) == <<v \div 256, v % 256>>

U32BE(v) == <<v \div 16777216, (v \div 65536) % 256, (v \div 256) % 256, v % 256>>

BEU16(b) == b[1] * 256 + b[2]

BEU32(b) == b[1] * 16777216 + b[2] * 65536 + b[3] * 256 + b[4]

\* the bytes of a header object in memory, on a little- or big-endian host
HeaderMem(h, le) ==
    IF le
    THEN <<h.Size % 256, h.Size \div 256,
           h.Id % 256, (h.Id \div 256) % 256, (h.Id \div 65536) % 256, h.Id \div 16777216>>
    ELSE U16BE(h.Size) \o U32BE(h.Id)

\* the header object that memory bytes denote
MemHeader(mem, le) ==
    IF le THEN [Size |-> BEU16(Reverse(SubSeq(mem, 1, 2))), Id |-> BEU32(Reverse(SubSeq(mem, 3, 6)))]
    ELSE [Size |-> BEU16(SubSeq(mem, 1, 2)), Id |-> BEU32(SubSeq(mem, 3, 6))]

\* Convert::NetworkToHost / HostToNetwork on uint16_t: a byte swap on a
\* little-endian host, nothing on a big-endian one
SwapU16(v, le) == IF le THEN (v % 256) * 256 + v \div 256 ELSE v

\* ByteSwapBE on the 32-bit command id
SwapU32(v, le) ==
    IF le
    THEN (v % 256) * 16777216 + ((v \div 256) % 256) * 65536
         + ((v \div 65536) % 256) * 256 + v \div 16777216
    ELSE v

(***************************************************************************)
(* State                                                                   *)
(***************************************************************************)
VARIABLES
    InboundPacket,    \* NetworkConnection::InboundPacket, also the packet the accessors act on
    outboundPackets,  \* NetworkConnection::_outboundPackets, head first
    AuthStatus,       \* NetworkConnection::AuthStatus
    lastPacketTime,   \* NetworkConnection::_lastPacketTime
    Stats,            \* NetworkConnection::Stats
    inStream,         \* bytes the socket can still hand to ReceiveData
    wire,             \* every byte SendData has accepted, in order
    ticks,            \* platform_get_ticks()
    littleEndian,     \* byte order of the host
    ret,              \* the last call and what it returned
    queueLog,         \* history: the packets QueuePacket accepted, in call order
    headerLog,        \* history: header bytes received for the packet being reassembled
    windowStart,      \* history: ticks at construction / last reset / last Success
    probe,            \* size-field specification: one body length through the size arithmetic
    ShouldDisconnect, \* NetworkConnection::ShouldDisconnect
    socketStatus,     \* what Socket->GetStatus() returns
    lastDisconnectReason  \* NetworkConnection::_lastDisconnectReason: the text, or NullReason

packetVars == <<InboundPacket>>
connVars == <<outboundPackets, AuthStatus, lastPacketTime, Stats>>
socketVars == <<inStream, wire>>
hostVars == <<ticks, littleEndian>>
logVars == <<queueLog, headerLog, windowStart>>
flagVars == <<ShouldDisconnect, socketStatus, lastDisconnectReason>>
vars == <<InboundPacket, outboundPackets, AuthStatus, lastPacketTime, Stats, inStream, wire,
          ticks, littleEndian, ret, queueLog, headerLog, windowStart, probe,
          ShouldDisconnect, socketStatus, lastDisconnectReason>>

\* what a call left behind for its caller
Ret(op, status, flag, data, n) ==
    [op |-> op, status |-> status, flag |-> flag, data |-> data, n |-> n]

(***************************************************************************)
(* NetworkPacket                                                           *)
(***************************************************************************)
\* NetworkPacket::NetworkPacket(NetworkCommand id)
NewPacket(id) ==
    [Header |-> [Size |-> 0, Id |-> id], Data |-> <<>>, BytesTransferred |-> 0, BytesRead |-> 0]

GetCommand(packet) == packet.Header.Id

\* mutant: Heartbeat missing from the allow-list
CommandRequiresAuth_NoHeartbeat(packet) ==
    GetCommand(packet) \notin
        {NetworkCommand.Ping, NetworkCommand.Auth, NetworkCommand.Token, NetworkCommand.GameInfo,
         NetworkCommand.ObjectsList, NetworkCommand.Scripts, NetworkCommand.MapRequest}

CommandRequiresAuth(packet) ==
    CASE GetCommand(packet) = NetworkCommand.Ping -> FALSE
      [] GetCommand(packet) = NetworkCommand.Auth -> FALSE
      [] GetCommand(packet) = NetworkCommand.Token -> FALSE
      [] GetCommand(packet) = NetworkCommand.GameInfo -> FALSE
      [] GetCommand(packet) = NetworkCommand.ObjectsList -> FALSE
      [] GetCommand(packet) = NetworkCommand.Scripts -> FALSE
      [] GetCommand(packet) = NetworkCommand.MapRequest -> FALSE
      [] GetCommand(packet) = NetworkCommand.Heartbeat -> FALSE
      [] OTHER -> TRUE

\* NetworkPacket::Write as a function of the packet
PacketWrite(packet, bytes) == [packet EXCEPT !.Data = @ \o bytes]

\* NetworkPacket::Clear as a function of the packet
PacketClear(packet) == [packet EXCEPT !.BytesTransferred = 0, !.BytesRead = 0, !.Data = <<>>]

\* NetworkPacket::Read: [packet, ok, data]
PacketRead(packet, size) ==
    IF packet.BytesRead + size > Len(packet.Data)
    THEN [packet |-> packet, ok |-> FALSE, data |-> <<>>]
    ELSE [packet |-> [packet EXCEPT !.BytesRead = @ + size],
          ok |-> TRUE,
          data |-> SubSeq(packet.Data, packet.BytesRead + 1, packet.BytesRead + size)]

\* the loop of ReadString: the cursor after scanning from `cursor` to the
\* first zero byte or to the end of Data
RECURSIVE ScanString(_, _)
ScanString(data, cursor) ==
    IF cursor < Len(data) /\ data[cursor + 1] # 0 THEN ScanString(data, cursor + 1) ELSE cursor

\* NetworkPacket::ReadString: [packet, ok, data]. When the scan stops at the
\* end of Data, the test after the loop reads str[stringLen] one byte past
\* the vector's last element; `past` is the byte that read yields.
PacketReadString(packet, past) ==
    IF packet.BytesRead >= Len(packet.Data)
    THEN [packet |-> packet, ok |-> FALSE, data |-> <<>>]
    ELSE LET stop == ScanString(packet.Data, packet.BytesRead)
             byte == IF stop < Len(packet.Data) THEN packet.Data[stop + 1] ELSE past
             scanned == [packet EXCEPT !.BytesRead = stop]
         IN IF byte # 0
            THEN [packet |-> scanned, ok |-> FALSE, data |-> <<>>]
            ELSE [packet |-> [scanned EXCEPT !.BytesRead = stop + 1],
                  ok |-> TRUE,
                  data |-> SubSeq(packet.Data, packet.BytesRead + 1, stop)]

\* values the byte past the end of Data can have
PastBytes == {0, 97}

\* sizes handed to Read
ReadSizes == {0, 1, 2, 3}

NoChangeOutsidePacket == UNCHANGED <<flagVars, connVars, socketVars, hostVars, logVars, probe>>

Write ==
    \E bytes \in SeqsUpTo(BodyBytes, 2) :
        /\ Len(InboundPacket.Data) + Len(bytes) <= MaxData
        /\ InboundPacket' = PacketWrite(InboundPacket, bytes)
        /\ ret' = Ret("Write", "", TRUE, bytes, 0)
        /\ NoChangeOutsidePacket

\* strlen(string) + 1 bytes: the characters and the terminator
WriteString ==
    \E string \in SeqsUpTo(BodyBytes \ {0}, 2) :
        /\ Len(InboundPacket.Data) + Len(string) + 1 <= MaxData
        /\ InboundPacket' = PacketWrite(InboundPacket, Append(string, 0))
        /\ ret' = Ret("WriteString", "", TRUE, string, 0)
        /\ NoChangeOutsidePacket

Read ==
    \E size \in ReadSizes :
        LET r == PacketRead(InboundPacket, size)
        IN /\ InboundPacket' = r.packet
           /\ ret' = Ret("Read", "", r.ok, r.data, InboundPacket.BytesRead)
           /\ NoChangeOutsidePacket

ReadString ==
    \E past \in PastBytes :
        LET r == PacketReadString(InboundPacket, past)
        IN /\ InboundPacket' = r.packet
           /\ ret' = Ret("ReadString", "", r.ok, r.data, InboundPacket.BytesRead)
           /\ NoChangeOutsidePacket

Clear ==
    /\ InboundPacket' = PacketClear(InboundPacket)
    /\ headerLog' = <<>>
    /\ ret' = Ret("Clear", "", TRUE, <<>>, 0)
    /\ UNCHANGED <<flagVars, connVars, socketVars, hostVars, queueLog, windowStart, probe>>

CallCommandRequiresAuth ==
    /\ ret' = Ret("CommandRequiresAuth", "", CommandRequiresAuth(InboundPacket), <<>>,
                  GetCommand(InboundPacket))
    /\ UNCHANGED <<flagVars, InboundPacket, connVars, socketVars, hostVars, logVars, probe>>

(***************************************************************************)
(* Construction                                                            *)
(***************************************************************************)
NoStats == [g \in {"Base", "Commands", "MapData", "Total"} |-> 0]

\* a null const utf8*
NullReason == [null |-> TRUE, text |-> <<>>]

NoProbe == [stage |-> "idle", len |-> 0, header |-> [Size |-> 0, Id |-> 0], bytes |-> <<>>]

\* NetworkConnection::NetworkConnection on a host of byte order le, at tick
\* t0, over a socket holding `stream`; `packet` is the inbound packet
\* (in the accessor specification: the packet under test)
InitWith(packet, le, t0, stream, probe0) ==
    /\ InboundPacket = packet
    /\ outboundPackets = <<>>
    /\ AuthStatus = "None"
    /\ lastPacketTime = t0
    /\ Stats = [bytesSent |-> NoStats, bytesReceived |-> NoStats]
    /\ inStream = stream
    /\ wire = <<>>
    /\ ticks = t0
    /\ littleEndian = le
    /\ ret = Ret("NetworkConnection", "", TRUE, <<>>, 0)
    /\ queueLog = <<>>
    /\ headerLog = <<>>
    /\ windowStart = t0
    /\ probe = probe0
    /\ ShouldDisconnect = FALSE
    /\ socketStatus = "Connected"
    /\ lastDisconnectReason = NullReason

\* a packet constructed with any command id, then written to and read from
InitPacket == \E id \in CommandIds : InitWith(NewPacket(id), TRUE, 0, <<>>, NoProbe)

NextPacket == Write \/ WriteString \/ Read \/ ReadString \/ Clear \/ CallCommandRequiresAuth

SpecPacket == InitPacket /\ [][NextPacket]_vars

(***************************************************************************)
(* NetworkConnection: statistics                                           *)
(***************************************************************************)
\* mutant: Map traffic counted as Base
TrafficGroup_MapAsBase(command) ==
    CASE command = NetworkCommand.GameAction -> "Commands"
      [] OTHER -> "Base"

TrafficGroup(command) ==
    CASE command = NetworkCommand.GameAction -> "Commands"
      [] command = NetworkCommand.Map -> "MapData"
      [] OTHER -> "Base"

\* NetworkConnection::RecordPacketStats as a function of the counters
RecordPacketStats(stats, packet, sending) ==
    LET packetSize == packet.BytesTransferred
        trafficGroup == TrafficGroup(GetCommand(packet))
        Add(counters) ==
            [g \in DOMAIN counters |->
                counters[g] + (IF g = trafficGroup THEN packetSize ELSE 0)
                            + (IF g = "Total" THEN packetSize ELSE 0)]
    IN IF sending
       THEN [stats EXCEPT !.bytesSent = Add(@)]
       ELSE [stats EXCEPT !.bytesReceived = Add(@)]

(***************************************************************************)
(* NetworkConnection: outbound queue and transmission                      *)
(***************************************************************************)
\* QueuePacket: header.Size = static_cast<uint16_t>(Data.size())
StampSize(packet) == [packet EXCEPT !.Header.Size = Len(packet.Data) % Pow16]

\* mutant: a front packet always becomes the head
QueueInsert_AlwaysHead(queue, packet, front) ==
    IF front THEN <<packet>> \o queue ELSE Append(queue, packet)

\* QueuePacket: where an accepted packet goes
QueueInsert(queue, packet, front) ==
    IF front
    THEN IF queue # <<>> /\ Head(queue).BytesTransferred > 0
         THEN <<Head(queue), packet>> \o Tail(queue)
         ELSE <<packet>> \o queue
    ELSE Append(queue, packet)

\* mutant: no gate
QueueAccepts_Always(auth, packet) == TRUE

\* QueuePacket: the auth gate
QueueAccepts(auth, packet) == auth = "Ok" \/ ~CommandRequiresAuth(packet)

\* NetworkConnection::QueuePacket for a packet the caller built from one of
\* `inputs`
QueuePacketFrom(inputs) ==
    \E input \in inputs, front \in BOOLEAN :
        LET command == input.command
            body == input.body
            packet == PacketWrite(NewPacket(command), body)
            accepted == QueueAccepts(AuthStatus, packet)
        IN /\ Len(queueLog) < MaxQueued
           /\ outboundPackets' =
                  IF accepted THEN QueueInsert(outboundPackets, StampSize(packet), front)
                  ELSE outboundPackets
           /\ queueLog' =
                  IF accepted
                  THEN Append(queueLog, [command |-> command, body |-> body, front |-> front])
                  ELSE queueLog
           /\ ret' = Ret("QueuePacket", IF front THEN "front" ELSE "tail", accepted, body, command)
           /\ UNCHANGED <<flagVars, InboundPacket, AuthStatus, lastPacketTime, Stats, socketVars, hostVars,
                          headerLog, windowStart, probe>>

QueuePacket == QueuePacketFrom(QueueInputs)

\* the session layer assigns the public field AuthStatus when the handshake
\* has succeeded
SetAuthStatus ==
    \E auth \in AuthStates \ {"None"} :
        /\ AuthStatus = "None"
        /\ AuthStatus' = auth
        /\ ret' = Ret("SetAuthStatus", auth, TRUE, <<>>, 0)
        /\ UNCHANGED <<flagVars, InboundPacket, outboundPackets, lastPacketTime, Stats, socketVars,
                       hostVars, logVars, probe>>

\* SendPacket: the header as it is put into the buffer
SendHeaderBytes(header, le) ==
    LET size == (header.Size + IdSize) % Pow16
        wireHeader == [Size |-> SwapU16(size, le), Id |-> SwapU32(header.Id, le)]
    IN HeaderMem(wireHeader, le)

\* SendPacket: the serialised packet
SendBuffer(packet, le) == SendHeaderBytes(packet.Header, le) \o packet.Data

\* SendPacket: the number of bytes offered to SendData
BufferSize(packet, le) == Len(SendBuffer(packet, le)) - packet.BytesTransferred

\* mutant: no packet ever counts as sent
SendComplete_Never(packet, buffer) == FALSE

\* mutant: a packet counts as sent once any byte of it was accepted
SendComplete_AnyByte(packet, buffer) == packet.BytesTransferred > 0

\* SendPacket: whether the packet is fully sent
SendComplete(packet, buffer) == packet.BytesTransferred = Len(buffer)

\* SendPacket: the bytes handed to SendData, buffer.data() + BytesTransferred
\* for bufferSize bytes
SendOffer(packet, le) ==
    SubSeq(SendBuffer(packet, le), packet.BytesTransferred + 1,
           packet.BytesTransferred + BufferSize(packet, le))

\* mutant: the accepted count replaces BytesTransferred instead of adding to it
SendPacket_NoResume(packet, sent, stats, le) ==
    LET buffer == SendBuffer(packet, le)
        after == IF sent > 0 THEN [packet EXCEPT !.BytesTransferred = sent] ELSE packet
        sendComplete == SendComplete(after, buffer)
    IN [packet |-> after,
        accepted |-> SubSeq(buffer, packet.BytesTransferred + 1, packet.BytesTransferred + sent),
        stats |-> IF sendComplete THEN RecordPacketStats(stats, after, TRUE) ELSE stats,
        sendComplete |-> sendComplete]

\* NetworkConnection::SendPacket when SendData accepts `sent` of the offered
\* bytes: the packet afterwards, the bytes accepted, the counters, the result
SendPacket(packet, sent, stats, le) ==
    LET buffer == SendBuffer(packet, le)
        after == IF sent > 0 THEN [packet EXCEPT !.BytesTransferred = @ + sent] ELSE packet
        sendComplete == SendComplete(after, buffer)
    IN [packet |-> after,
        accepted |-> SubSeq(buffer, packet.BytesTransferred + 1, packet.BytesTransferred + sent),
        stats |-> IF sendComplete THEN RecordPacketStats(stats, after, TRUE) ELSE stats,
        sendComplete |-> sendComplete]

\* mutant: the loop does not stop at a packet that was sent in part, it
\* goes on to the packets behind it
RECURSIVE SendLoop_SkipsPartial(_, _, _, _)
SendLoop_SkipsPartial(st, full, part, le) ==
    IF st.queue = <<>> THEN st
    ELSE LET head == Head(st.queue)
             sent == IF full > 0 THEN BufferSize(head, le) ELSE Min(part, BufferSize(head, le))
             r == SendPacket(head, sent, st.stats, le)
             rest == SendLoop_SkipsPartial([queue |-> Tail(st.queue),
                                            wire |-> st.wire \o r.accepted,
                                            stats |-> r.stats,
                                            calls |-> st.calls + 1], full - 1, part, le)
         IN IF r.sendComplete THEN rest ELSE [rest EXCEPT !.queue = <<r.packet>> \o @]

\* The loop of SendQueuedPackets on st = [queue, wire, stats, calls] when
\* the transport accepts the whole offer of the next `full` SendData calls
\* and `part` bytes of the call after them.
RECURSIVE SendLoop(_, _, _, _)
SendLoop(st, full, part, le) ==
    IF st.queue = <<>> THEN st
    ELSE LET head == Head(st.queue)
             sent == IF full > 0 THEN BufferSize(head, le) ELSE part
             r == SendPacket(head, sent, st.stats, le)
             st1 == [queue |-> <<r.packet>> \o Tail(st.queue),
                     wire |-> st.wire \o r.accepted,
                     stats |-> r.stats,
                     calls |-> st.calls + 1]
         IN IF r.sendComplete
            THEN SendLoop([st1 EXCEPT !.queue = Tail(@)], full - 1, part, le)
            ELSE st1

\* SendQueuedPackets when the transport accepts the whole offer of the next
\* `full` SendData calls and `part` bytes of the call after them
SendQueuedWith(full, part) ==
    LET st == SendLoop([queue |-> outboundPackets, wire |-> <<>>, stats |-> Stats,
                        calls |-> 0], full, part, littleEndian)
    IN /\ outboundPackets' = st.queue
       /\ Stats' = st.stats
       /\ wire' = wire \o st.wire
       /\ inStream' = inStream \o st.wire
       /\ ret' = Ret("SendQueuedPackets", "", TRUE, <<>>, 0)
       /\ UNCHANGED <<flagVars, InboundPacket, AuthStatus, lastPacketTime, hostVars, logVars, probe>>

SendQueuedPackets ==
    \E full \in 0 .. Len(outboundPackets) :
        \E part \in (IF full < Len(outboundPackets)
                     THEN 0 .. (BufferSize(outboundPackets[full + 1], littleEndian) - 1)
                     ELSE {0}) :
            SendQueuedWith(full, part)

\* One pass of the loop of SendQueuedPackets: SendPacket on the head of the
\* queue, and pop_front when it returned true.  ret.data is what was offered
\* to SendData, ret.n the packet's BytesTransferred after the call.
SendPacketCall ==
    /\ outboundPackets # <<>>
    /\ \E sent \in 0 .. BufferSize(Head(outboundPackets), littleEndian) :
           LET r == SendPacket(Head(outboundPackets), sent, Stats, littleEndian)
           IN /\ outboundPackets' =
                     IF r.sendComplete THEN Tail(outboundPackets)
                     ELSE <<r.packet>> \o Tail(outboundPackets)
              /\ Stats' = r.stats
              /\ wire' = wire \o r.accepted
              /\ inStream' = inStream \o r.accepted
              /\ ret' = Ret("SendPacket", "", r.sendComplete,
                            SendOffer(Head(outboundPackets), littleEndian),
                            r.packet.BytesTransferred)
              /\ UNCHANGED <<flagVars, InboundPacket, AuthStatus, lastPacketTime, hostVars,
                             logVars, probe>>

(***************************************************************************)
(* NetworkConnection: inbound reassembly                                   *)
(***************************************************************************)
\* Socket::ReceiveData(buffer, size, &bytesRead) on a socket holding `stream`
ReceiveData(stream, size) ==
    {[status |-> "Success", bytes |-> Take(stream, k)] : k \in 0 .. Min(size, Len(stream))}
    \cup {[status |-> s, bytes |-> <<>>] : s \in {"MoreData", "Disconnected", "Error"}}

\* ReadPacket: where a header receive stores its bytes. `buffer` is the
\* address of InboundPacket.Header itself: offset 0 on every call.
HeaderReceiveOffset(packet) == 0

\* ReadPacket: the header after `bytes` were received into its storage
ReceiveIntoHeader(packet, bytes, le) ==
    LET mem == HeaderMem(packet.Header, le)
        at == HeaderReceiveOffset(packet)
    IN MemHeader(Take(mem, at) \o bytes \o Drop(mem, at + Len(bytes)), le)

\* mutant: the subtraction is not clamped and wraps as a uint16_t
NormaliseHeader_NoClamp(header, le) ==
    LET size == SwapU16(header.Size, le)
    IN [Size |-> (size + Pow16 - IdSize) % Pow16, Id |-> SwapU32(header.Id, le)]

\* ReadPacket: "Normalise values" and the compatibility subtraction
NormaliseHeader(header, le) ==
    LET size == SwapU16(header.Size, le)
    IN [Size |-> size - Min(size, IdSize), Id |-> SwapU32(header.Id, le)]

\* what one ReceiveData call of ReadPacket asked for and got
Received(size, r) == [size |-> size, status |-> r.status, got |-> Len(r.bytes)]

\* mutant: a failed receive is reported as MoreData
ReadPacketReturn_SwallowsError(packet, stream, log, status, calls) ==
    /\ InboundPacket' = packet
    /\ inStream' = stream
    /\ headerLog' = log
    /\ IF status = "Success"
       THEN /\ lastPacketTime' = ticks
            /\ windowStart' = ticks
            /\ Stats' = RecordPacketStats(Stats, packet, FALSE)
       ELSE UNCHANGED <<lastPacketTime, windowStart, Stats>>
    /\ ret' = Ret("ReadPacket", IF status = "Success" THEN status ELSE "MoreData",
                  status = "Success", calls, 0)
    /\ UNCHANGED <<flagVars, outboundPackets, AuthStatus, wire, hostVars, queueLog, probe>>

\* ReadPacket returns `status` with the inbound packet and the socket as
\* given; `calls` are the ReceiveData calls it made
ReadPacketReturn(packet, stream, log, status, calls) ==
    /\ InboundPacket' = packet
    /\ inStream' = stream
    /\ headerLog' = log
    /\ IF status = "Success"
       THEN /\ lastPacketTime' = ticks
            /\ windowStart' = ticks
            /\ Stats' = RecordPacketStats(Stats, packet, FALSE)
       ELSE UNCHANGED <<lastPacketTime, windowStart, Stats>>
    /\ ret' = Ret("ReadPacket", status, status = "Success", calls, 0)
    /\ UNCHANGED <<flagVars, outboundPackets, AuthStatus, wire, hostVars, queueLog, probe>>

\* mutant: any body counts as complete
BodyComplete_Always(packet) == TRUE

\* ReadPacket: whether the body is complete
BodyComplete(packet) == Len(packet.Data) = packet.Header.Size

\* ReadPacket: "Read packet body"
ReadPacketBody(packet, stream, log, calls) ==
    LET missingLength == packet.Header.Size - (packet.BytesTransferred - HeaderSize)
        size == Min(missingLength, NetworkBufferSize)
    IN IF missingLength > 0
       THEN \E r \in ReceiveData(stream, size) :
                IF r.status # "Success"
                THEN ReadPacketReturn(packet, stream, log, r.status,
                                      Append(calls, Received(size, r)))
                ELSE LET received ==
                             PacketWrite([packet EXCEPT !.BytesTransferred = @ + Len(r.bytes)],
                                         r.bytes)
                     IN ReadPacketReturn(received, Drop(stream, Len(r.bytes)), log,
                                         IF BodyComplete(received) THEN "Success" ELSE "MoreData",
                                         Append(calls, Received(size, r)))
       ELSE ReadPacketReturn(packet, stream, log,
                             IF BodyComplete(packet) THEN "Success" ELSE "MoreData", calls)

ReadPacket ==
    /\ Stats.bytesReceived.Total < MaxRecvBytes
    /\ IF InboundPacket.BytesTransferred < HeaderSize
       THEN \E r \in ReceiveData(inStream, HeaderSize - InboundPacket.BytesTransferred) :
                IF r.status # "Success"
                THEN ReadPacketReturn(InboundPacket, inStream, headerLog, r.status,
                                      <<Received(HeaderSize - InboundPacket.BytesTransferred, r)>>)
                ELSE LET received ==
                             [InboundPacket EXCEPT
                                 !.Header = ReceiveIntoHeader(InboundPacket, r.bytes, littleEndian),
                                 !.BytesTransferred = @ + Len(r.bytes)]
                         stream == Drop(inStream, Len(r.bytes))
                         log == headerLog \o r.bytes
                         calls ==
                             <<Received(HeaderSize - InboundPacket.BytesTransferred, r)>>
                     IN IF received.BytesTransferred < HeaderSize
                        THEN ReadPacketReturn(received, stream, log, "MoreData", calls)
                        ELSE ReadPacketBody(
                                 [received EXCEPT !.Header = NormaliseHeader(@, littleEndian)],
                                 stream, log, calls)
       ELSE ReadPacketBody(InboundPacket, inStream, headerLog, <<>>)

(***************************************************************************)
(* NetworkConnection: liveness window                                      *)
(***************************************************************************)
\* the clock advances between two calls
Tick ==
    \E step \in TickSteps :
        /\ ticks + step <= MaxTicks
        /\ ticks' = ticks + step
        /\ ret' = Ret("Tick", "", TRUE, <<>>, step)
        /\ UNCHANGED <<flagVars, InboundPacket, connVars, socketVars, littleEndian, logVars, probe>>

ResetLastPacketTime ==
    /\ lastPacketTime' = ticks
    /\ windowStart' = ticks
    /\ ret' = Ret("ResetLastPacketTime", "", TRUE, <<>>, 0)
    /\ UNCHANGED <<flagVars, InboundPacket, outboundPackets, AuthStatus, Stats, socketVars, hostVars,
                   queueLog, headerLog, probe>>

\* mutant: the window closes one tick early
ReceivedPacketRecently_OffByOne == ~(ticks >= lastPacketTime + TimeoutTicks)

\* NetworkConnection::ReceivedPacketRecently in a build without DEBUG: the
\* value a call returns in the current state
ReceivedPacketRecently == ~(ticks > lastPacketTime + TimeoutTicks)

(***************************************************************************)
(* NetworkConnection: disconnect flag and disconnect reason                *)
(***************************************************************************)
\* SocketStatus values (Socket.h) a connection's socket goes through
SocketStatuses == {"Connected", "Closed"}

\* the peer or the network closes the socket
SocketStatusChange ==
    /\ socketStatus = "Connected"
    /\ socketStatus' = "Closed"
    /\ ret' = Ret("SocketStatusChange", "Closed", TRUE, <<>>, 0)
    /\ UNCHANGED <<InboundPacket, connVars, socketVars, hostVars, logVars, probe,
                   ShouldDisconnect, lastDisconnectReason>>

Disconnect ==
    /\ ShouldDisconnect' = TRUE
    /\ ret' = Ret("Disconnect", "", TRUE, <<>>, 0)
    /\ UNCHANGED <<InboundPacket, connVars, socketVars, hostVars, logVars, probe,
                   socketStatus, lastDisconnectReason>>

\* mutant: the flag is not looked at
IsValid_IgnoresFlag == socketStatus = "Connected"

\* NetworkConnection::IsValid: the value a call returns in the current state
IsValid == ~ShouldDisconnect /\ socketStatus = "Connected"

CallIsValid ==
    /\ ret' = Ret("IsValid", "", IsValid, <<>>, 0)
    /\ UNCHANGED <<flagVars, InboundPacket, connVars, socketVars, hostVars, logVars, probe>>

\* a text of n characters
Text(n) == [i \in 1 .. n |-> 97]

\* arguments of SetLastDisconnectReason: a null pointer, the empty string,
\* texts shorter than, as long as and longer than the buffer
ReasonInputs ==
    {NullReason}
    \cup {[null |-> FALSE, text |-> Text(n)] :
              n \in {0, 1, 2, NETWORK_DISCONNECT_REASON_BUFFER_SIZE - 1,
                     NETWORK_DISCONNECT_REASON_BUFFER_SIZE,
                     NETWORK_DISCONNECT_REASON_BUFFER_SIZE + 1}}

\* String::Set(buffer, bufferSize, src): the characters of src that fit
\* in front of the terminator
StringSet(bufferSize, src) == Take(src, Min(Len(src), bufferSize - 1))

\* NetworkConnection::SetLastDisconnectReason(const utf8* src) as a function
\* of the argument; the buffer, once allocated, is overwritten from its start
LastDisconnectReasonAfter(src) ==
    IF src.null THEN NullReason
    ELSE [null |-> FALSE, text |-> StringSet(NETWORK_DISCONNECT_REASON_BUFFER_SIZE, src.text)]

SetLastDisconnectReason ==
    \E src \in ReasonInputs :
        /\ lastDisconnectReason' = LastDisconnectReasonAfter(src)
        /\ ret' = Ret("SetLastDisconnectReason", IF src.null THEN "null" ELSE "text", TRUE,
                      src.text, 0)
        /\ UNCHANGED <<InboundPacket, connVars, socketVars, hostVars, logVars, probe,
                       ShouldDisconnect, socketStatus>>

\* returns the pointer: ret.flag says it is not null, ret.data is the text
GetLastDisconnectReason ==
    /\ ret' = Ret("GetLastDisconnectReason", "", ~lastDisconnectReason.null,
                  lastDisconnectReason.text, 0)
    /\ UNCHANGED <<flagVars, InboundPacket, connVars, socketVars, hostVars, logVars, probe>>

(***************************************************************************)
(* The size field of one packet, by body length                            *)
(***************************************************************************)
\* A packet whose body has probe.len bytes goes through QueuePacket's
\* stamp, SendPacket's header and ReadPacket's header decoding.  Only the
\* body length and the header are kept, so that lengths around 2^16 stay
\* small states.
ProbeQueue ==
    /\ probe.stage = "new"
    /\ probe' = [probe EXCEPT !.stage = "queued", !.header.Size = probe.len % Pow16]
    /\ ret' = Ret("ProbeQueue", "", TRUE, <<>>, probe.len)
    /\ UNCHANGED <<flagVars, InboundPacket, connVars, socketVars, hostVars, logVars>>

ProbeSend ==
    /\ probe.stage = "queued"
    /\ probe' = [probe EXCEPT !.stage = "sent",
                              !.bytes = SendHeaderBytes(probe.header, littleEndian)]
    /\ ret' = Ret("ProbeSend", "", TRUE, <<>>, probe.len)
    /\ UNCHANGED <<flagVars, InboundPacket, connVars, socketVars, hostVars, logVars>>

ProbeReceive ==
    /\ probe.stage = "sent"
    /\ probe' = [probe EXCEPT
                    !.stage = "received",
                    !.header = NormaliseHeader(
                                   ReceiveIntoHeader(InboundPacket, probe.bytes, littleEndian),
                                   littleEndian)]
    /\ ret' = Ret("ProbeReceive", "", TRUE, <<>>, probe.len)
    /\ UNCHANGED <<flagVars, InboundPacket, connVars, socketVars, hostVars, logVars>>

(***************************************************************************)
(* Specifications                                                          *)
(***************************************************************************)
\* a default-constructed inbound packet
InboundPackets == {NewPacket(id) : id \in InboundInitialIds}

\* Send side: packets are queued and drained.
Init == InitWith(NewPacket(NetworkCommand.Auth), TRUE, 0, <<>>, NoProbe)

Next == QueuePacket \/ SetAuthStatus \/ SendQueuedPackets

Spec == Init /\ [][Next]_vars

\* Round trip: what the send side hands to the transport is reassembled by
\* the receive side; the session layer clears the inbound packet.
InitRoundTrip == \E packet \in InboundPackets, le \in BOOLEAN : InitWith(packet, le, 0, <<>>, NoProbe)

\* the sending side queues a bounded number of packets
QueueForRoundTrip == Len(queueLog) < MaxRoundTripPackets /\ QueuePacket

\* the session layer clears the inbound packet once it has processed a
\* packet that ReadPacket reported complete
ClearAfterSuccess == ret.op = "ReadPacket" /\ ret.status = "Success" /\ Clear

NextRoundTrip ==
    QueueForRoundTrip \/ SetAuthStatus \/ SendQueuedPackets \/ ReadPacket \/ ClearAfterSuccess

SpecRoundTrip == InitRoundTrip /\ [][NextRoundTrip]_vars

\* Size field: one body length through stamp, send header and receive header.
InitSize ==
    \E len \in ProbeLengths, command \in {i.command : i \in QueueInputs}, packet \in InboundPackets, le \in BOOLEAN :
        InitWith(packet, le, 0, <<>>,
                 [stage |-> "new", len |-> len, header |-> NewPacket(command).Header,
                  bytes |-> <<>>])

NextSize == ProbeQueue \/ ProbeSend \/ ProbeReceive

SpecSize == InitSize /\ [][NextSize]_vars

\* the bytes a peer's SendPacket produces for a command and a body
WireOf(command, body) == SendBuffer(StampSize(PacketWrite(NewPacket(command), body)), TRUE)

\* Liveness window: the clock advances while a peer's packets arrive.
\* streams a peer has sent: one packet without body, one with a body byte
PeerStreams == {WireOf(i.command, i.body) : i \in QueueInputs}

InitTime ==
    \E packet \in InboundPackets, t0 \in {0, 1000}, stream \in PeerStreams :
        InitWith(packet, TRUE, t0, stream, NoProbe)

NextTime == Tick \/ ReadPacket \/ ClearAfterSuccess \/ ResetLastPacketTime

SpecTime == InitTime /\ [][NextTime]_vars

\* Statistics: packets of all three traffic groups are queued, sent and, over
\* the loopback, received.
QueueForStats == Len(queueLog) < MaxStatsPackets /\ QueuePacketFrom(StatsInputs)

NextStats ==
    QueueForStats \/ SetAuthStatus \/ SendQueuedPackets \/ ReadPacket \/ ClearAfterSuccess

SpecStats == Init /\ [][NextStats]_vars

\* Receive side: a peer has sent bytes, which arrive in any chunks; the
\* session layer clears the inbound packet after every Success.
\* A header of the peer's with the given size field, for a Ping
PeerHeader(wireSize) == U16BE(wireSize) \o U32BE(NetworkCommand.Ping)

\* what the peer has sent: a header with a size field of 0 to 4 and no
\* body; a GameAction with one body byte; a header that declares two body
\* bytes, followed by one; a Ping followed by a GameAction
ReceiveStreams ==
    {PeerHeader(wireSize) : wireSize \in 0 .. IdSize}
    \cup {WireOf(NetworkCommand.GameAction, <<97>>),
          PeerHeader(IdSize + 2) \o <<97>>,
          WireOf(NetworkCommand.Ping, <<>>) \o WireOf(NetworkCommand.GameAction, <<97>>)}

InitReceive ==
    \E packet \in InboundPackets, le \in BOOLEAN, stream \in ReceiveStreams :
        InitWith(packet, le, 0, stream, NoProbe)

ReadAfterClear == ~(ret.op = "ReadPacket" /\ ret.status = "Success") /\ ReadPacket

NextReceive == ReadAfterClear \/ ClearAfterSuccess

SpecReceive == InitReceive /\ [][NextReceive]_vars

\* Send calls: the queue is drained one SendPacket call at a time, on hosts
\* of either byte order.
InitSend == \E le \in BOOLEAN : InitWith(NewPacket(NetworkCommand.Auth), le, 0, <<>>, NoProbe)

QueueForSend == Len(queueLog) < MaxSendPackets /\ QueuePacket

NextSend == QueueForSend \/ SetAuthStatus \/ SendPacketCall

SpecSend == InitSend /\ [][NextSend]_vars

\* Drain: the session layer calls SendQueuedPackets on every update.  The
\* transport does not refuse bytes for ever: while a packet is queued, a call
\* in which SendData accepts at least one byte of the first offer (some of
\* it, or all of it and nothing of the next) happens again and again.
QueueForDrain == Len(queueLog) < MaxDrainPackets /\ QueuePacket

SendProgress ==
    /\ outboundPackets # <<>>
    /\ \E sent \in 1 .. BufferSize(Head(outboundPackets), littleEndian) :
           LET r == SendPacket(Head(outboundPackets), sent, Stats, littleEndian)
           IN /\ outboundPackets' =
                     IF r.sendComplete THEN Tail(outboundPackets)
                     ELSE <<r.packet>> \o Tail(outboundPackets)
              /\ Stats' = r.stats
              /\ wire' = wire \o r.accepted
              /\ inStream' = inStream \o r.accepted
              /\ ret' = Ret("SendQueuedPackets", "", TRUE, <<>>, 0)
              /\ UNCHANGED <<flagVars, InboundPacket, AuthStatus, lastPacketTime, hostVars,
                             logVars, probe>>

NextDrain == QueueForDrain \/ SetAuthStatus \/ SendQueuedPackets

SpecDrain == Init /\ [][NextDrain]_vars /\ WF_vars(SendProgress)

\* Disconnect flag: the flag and the socket status change while a packet is
\* queued, sent and received on a connection that is not authenticated yet.
QueueForSession == Len(queueLog) < MaxSessionPackets /\ QueuePacket

NextSession ==
    \/ QueueForSession \/ SendQueuedPackets \/ ReadPacket \/ ClearAfterSuccess
    \/ Disconnect \/ CallIsValid \/ SocketStatusChange

SpecSession == Init /\ [][NextSession]_vars

\* Disconnect reason: the reason is set and read back.
NextReason ==
    \/ SetLastDisconnectReason \/ GetLastDisconnectReason
    \/ Disconnect \/ CallIsValid \/ SocketStatusChange
    \/ QueueForSession \/ SendQueuedPackets

SpecReason == Init /\ [][NextReason]_vars

(***************************************************************************)
(* Claims                                                                  *)
(***************************************************************************)
\* the wire format of one packet: size (body length + 4) and command in
\* network byte order, then the body
WireFormat(command, body) == U16BE(Len(body) + IdSize) \o U32BE(command) \o body

RECURSIVE WireFormatAll(_)
WireFormatAll(log) ==
    IF log = <<>> THEN <<>>
    ELSE WireFormat(Head(log).command, Head(log).body) \o WireFormatAll(Tail(log))

\* the packet QueuePacket stores for a command and a body
Queued(command, body) ==
    [Header |-> [Size |-> Len(body), Id |-> command], Data |-> body,
     BytesTransferred |-> 0, BytesRead |-> 0]

\* the commands that need no auth
NoAuthCommands ==
    {NetworkCommand.Ping, NetworkCommand.Auth, NetworkCommand.Token, NetworkCommand.GameInfo,
     NetworkCommand.ObjectsList, NetworkCommand.Scripts, NetworkCommand.MapRequest,
     NetworkCommand.Heartbeat}

\* position of the first zero byte of s, 0 if it has none
FirstZero(s) ==
    IF \E i \in 1 .. Len(s) : s[i] = 0
    THEN CHOOSE i \in 1 .. Len(s) : s[i] = 0 /\ \A j \in 1 .. (i - 1) : s[j] # 0
    ELSE 0

\* ReadPacket has just reported the first complete packet of the connection
FirstSuccess ==
    /\ ret.op = "ReadPacket"
    /\ ret.status = "Success"
    /\ Stats.bytesReceived.Total = InboundPacket.BytesTransferred

\* C1 (framing round trip): when one packet has been queued and sent and
\* ReadPacket reports the first complete packet, whatever chunks the socket
\* delivered, the inbound packet has the command and the body of the packet
\* that was sent.
C1_RoundTrip ==
    (FirstSuccess /\ Len(queueLog) = 1) =>
        /\ GetCommand(InboundPacket) = queueLog[1].command
        /\ InboundPacket.Data = queueLog[1].body

\* C2 (partial header resumption): once the six header bytes have arrived,
\* in one receive or in several, the header is the one those six bytes
\* decode to: size (less the four bytes of the command) and command, both
\* big-endian.
C2_HeaderResumption ==
    InboundPacket.BytesTransferred >= HeaderSize =>
        /\ Len(headerLog) = HeaderSize
        /\ InboundPacket.Header.Size =
               BEU16(SubSeq(headerLog, 1, 2)) - Min(BEU16(SubSeq(headerLog, 1, 2)), IdSize)
        /\ InboundPacket.Header.Id = BEU32(SubSeq(headerLog, 3, 6))

\* C3 (header size compatibility): for every body length the size field on
\* the wire is the body length plus 4, and the receiver's header size is
\* the body length again.
C3_SizeField ==
    /\ probe.stage \in {"sent", "received"} =>
           BEU16(SubSeq(probe.bytes, 1, 2)) = probe.len + IdSize
    /\ probe.stage = "received" => probe.header.Size = probe.len

\* every packet so far was queued at the tail
AllTail == \A i \in 1 .. Len(queueLog) : ~queueLog[i].front

\* C4 (in-order send): when packets are queued at the tail only, the bytes
\* the transport has accepted are a prefix of the packets' wire formats in
\* the order they were queued, however few bytes each SendData call took.
C4_InOrderSend == AllTail => IsPrefix(wire, WireFormatAll(queueLog))

\* three packets, not all alike, queued at the tail; the first two are
\* sent and the third is partly on the wire
C4_Witness ==
    /\ AllTail
    /\ Len(queueLog) = 3
    /\ queueLog[1].command # queueLog[2].command
    /\ Len(outboundPackets) = 1
    /\ outboundPackets[1].BytesTransferred > 0

\* C5 (priority insertion): an accepted QueuePacket(C, front = true) puts C
\* second when the head is partly sent, and first when the queue is empty or
\* its head is unsent; the packets queued before keep their order.
C5_PriorityInsertion ==
    [][(ret'.op = "QueuePacket" /\ ret'.status = "front" /\ ret'.flag) =>
          LET C == Queued(ret'.n, ret'.data)
          IN IF outboundPackets # <<>> /\ Head(outboundPackets).BytesTransferred > 0
             THEN outboundPackets' = <<Head(outboundPackets), C>> \o Tail(outboundPackets)
             ELSE outboundPackets' = <<C>> \o outboundPackets]_vars

\* [A, B] with A partly sent has become [A, C, B], C unlike B
C5_Witness ==
    /\ ret.op = "QueuePacket"
    /\ ret.status = "front"
    /\ ret.flag
    /\ Len(outboundPackets) = 3
    /\ outboundPackets[1].BytesTransferred > 0
    /\ outboundPackets[2] = Queued(ret.n, ret.data)
    /\ outboundPackets[3] # outboundPackets[2]

\* C6 (auth gating): QueuePacket adds the packet to the queue if and only
\* if AuthStatus is Ok or the command needs no auth; otherwise the queue is
\* left exactly as it was, for front and for tail insertion alike.
C6_AuthGating ==
    [][ret'.op = "QueuePacket" =>
          IF AuthStatus = "Ok" \/ ret'.n \in NoAuthCommands
          THEN /\ Len(outboundPackets') = Len(outboundPackets) + 1
               /\ \E i \in 1 .. Len(outboundPackets') :
                      outboundPackets'[i] = Queued(ret'.n, ret'.data)
          ELSE outboundPackets' = outboundPackets]_vars

\* a GameAction was handed in with front = true while AuthStatus was not Ok
\* and the queue, which held a packet, stayed as it was
C6_Witness ==
    /\ ret.op = "QueuePacket"
    /\ ret.status = "front"
    /\ ~ret.flag
    /\ ret.n = NetworkCommand.GameAction
    /\ AuthStatus # "Ok"
    /\ outboundPackets # <<>>

\* C7 (command allow-list): CommandRequiresAuth is false for Ping, Auth,
\* Token, GameInfo, ObjectsList, Scripts, MapRequest and Heartbeat and true
\* for every other command.
C7_AllowList ==
    ret.op = "CommandRequiresAuth" => (ret.flag = (ret.n \notin NoAuthCommands))

\* CommandRequiresAuth has answered for Heartbeat
C7_Witness ==
    /\ ret.op = "CommandRequiresAuth"
    /\ ret.n = NetworkCommand.Heartbeat
    /\ ~ret.flag

\* C8 (string read): ReadString returns the bytes from the cursor up to the
\* next zero byte and leaves the cursor just past it; when no zero byte
\* follows the cursor inside the body it returns no string.
C8_ReadString ==
    ret.op = "ReadString" =>
        LET rest == Drop(InboundPacket.Data, ret.n)
            zero == FirstZero(rest)
        IN IF zero > 0
           THEN /\ ret.flag
                /\ ret.data = Take(rest, zero - 1)
                /\ InboundPacket.BytesRead = ret.n + zero
           ELSE ~ret.flag

\* C9 (cursor invariant): after any sequence of Write, WriteString, Read,
\* ReadString and Clear the read cursor is at most the body length.
C9_CursorInvariant == InboundPacket.BytesRead <= Len(InboundPacket.Data)

\* C10 (timeout): ReceivedPacketRecently is true exactly while at most 7000
\* ticks have passed since the later of construction, the last
\* ResetLastPacketTime and the last ReadPacket that returned Success; so it
\* is true right after construction and right after a Success, false once
\* more than 7000 ticks have passed, and a ReadPacket that returns MoreData
\* or an error leaves the window where it was.
C10_Timeout ==
    /\ [](ReceivedPacketRecently = (ticks - windowStart <= TimeoutTicks))
    /\ []((ret.op = "NetworkConnection" \/ (ret.op = "ReadPacket" /\ ret.status = "Success"))
             => ReceivedPacketRecently)
    /\ [][(ret'.op = "ReadPacket" /\ ret'.status # "Success") =>
             lastPacketTime' = lastPacketTime]_vars

\* the window had run out and a ReadPacket that returned Success has just
\* opened it again
C10_Witness ==
    /\ ret.op = "ReadPacket"
    /\ ret.status = "Success"
    /\ ticks - 1000 > TimeoutTicks
    /\ windowStart = ticks
    /\ ReceivedPacketRecently

\* the traffic group the specification assigns to a command
GroupOf(command) ==
    IF command = NetworkCommand.GameAction THEN "Commands"
    ELSE IF command = NetworkCommand.Map THEN "MapData"
    ELSE "Base"

\* what packets of the given wire sizes and commands add to counter g
RECURSIVE Added(_, _)
Added(g, packets) ==
    IF packets = <<>> THEN 0
    ELSE (IF g \in {GroupOf(Head(packets).command), "Total"} THEN Head(packets).size ELSE 0)
         + Added(g, Tail(packets))

Counted(counters, packets) == [g \in DOMAIN counters |-> counters[g] + Added(g, packets)]

\* the packets a SendQueuedPackets step has sent in full: the ones it took
\* off the head of the queue, each of wire size 6 + len(body)
FullySent(before, after) ==
    [i \in 1 .. (Len(before) - Len(after)) |->
        [command |-> before[i].Header.Id, size |-> HeaderSize + Len(before[i].Data)]]

\* C11 (statistics): each packet sent in full adds its wire size to the sent
\* counter of its group (Commands for GameAction, MapData for Map, Base for
\* any other command) and to the sent Total, and to no other counter; each
\* ReadPacket that returns Success does the same to the received counters;
\* no other step changes a counter.
C11_Statistics ==
    [][/\ ret'.op = "SendQueuedPackets" =>
              Stats' = [bytesSent |-> Counted(Stats.bytesSent,
                                              FullySent(outboundPackets, outboundPackets')),
                        bytesReceived |-> Stats.bytesReceived]
       /\ (ret'.op = "ReadPacket" /\ ret'.status = "Success") =>
              Stats' = [bytesSent |-> Stats.bytesSent,
                        bytesReceived |->
                            Counted(Stats.bytesReceived,
                                    <<[command |-> InboundPacket'.Header.Id,
                                       size |-> HeaderSize + Len(InboundPacket'.Data)]>>)]
       /\ ~(ret'.op = "SendQueuedPackets" \/ (ret'.op = "ReadPacket" /\ ret'.status = "Success"))
              => Stats' = Stats]_vars

\* a Map packet of wire size 8 was sent in full and has just been received:
\* 8 bytes in sent MapData and sent Total, 8 in received MapData and
\* received Total, nothing anywhere else
C11_Witness ==
    /\ ret.op = "ReadPacket"
    /\ ret.status = "Success"
    /\ Stats.bytesSent = [Base |-> 0, Commands |-> 0, MapData |-> 8, Total |-> 8]
    /\ Stats.bytesReceived = [Base |-> 0, Commands |-> 0, MapData |-> 8, Total |-> 8]

\* C12 (disconnect flag): Disconnect sets ShouldDisconnect and leaves the
\* socket, the outbound queue, the inbound packet and the statistics as they
\* were; IsValid is true exactly when ShouldDisconnect is false and the
\* socket is Connected; no operation clears ShouldDisconnect, so from a
\* Disconnect on IsValid is false in every state.
C12_DisconnectFlag ==
    /\ [][ret'.op = "Disconnect" =>
              /\ ShouldDisconnect'
              /\ UNCHANGED <<socketStatus, inStream, wire, outboundPackets, InboundPacket,
                             Stats>>]_vars
    /\ [](ret.op = "IsValid" => (ret.flag = (~ShouldDisconnect /\ socketStatus = "Connected")))
    /\ [](ret.op = "Disconnect" => ShouldDisconnect)
    /\ [][ShouldDisconnect => ShouldDisconnect']_vars
    /\ [](ShouldDisconnect => ~IsValid)

\* Disconnect was called on a socket that stayed Connected; a packet was
\* queued and sent in full all the same, and IsValid returned false
C12_Witness ==
    /\ ret.op = "IsValid"
    /\ ~ret.flag
    /\ ShouldDisconnect
    /\ socketStatus = "Connected"
    /\ Len(queueLog) = 1
    /\ outboundPackets = <<>>

\* C13 (disconnect reason): after SetLastDisconnectReason with a null or an
\* empty reason GetLastDisconnectReason returns the null pointer; after one
\* with a non-empty reason it returns the text, cut to what fits the
\* 256-byte buffer with its terminator.
C13_DisconnectReason ==
    [][(ret.op = "SetLastDisconnectReason" /\ ret'.op = "GetLastDisconnectReason") =>
          IF ret.status = "null" \/ ret.data = <<>>
          THEN ~ret'.flag
          ELSE /\ ret'.flag
               /\ ret'.data = Take(ret.data, Min(Len(ret.data),
                                                 NETWORK_DISCONNECT_REASON_BUFFER_SIZE - 1))]_vars

\* C14 (partial send resumption): a SendPacket call offers the transport the
\* packet's serialisation from offset BytesTransferred to its end, adds the
\* number of bytes the transport accepted to BytesTransferred (nothing
\* changes when it accepted none), returns true exactly when
\* BytesTransferred then is 6 + len(body), and changes the statistics on
\* that call only.
C14_PartialSend ==
    [][ret'.op = "SendPacket" =>
          LET packet == Head(outboundPackets)
              accepted == Len(wire') - Len(wire)
          IN /\ ret'.data = Drop(WireFormat(packet.Header.Id, packet.Data),
                                 packet.BytesTransferred)
             /\ wire' = wire \o Take(ret'.data, accepted)
             /\ ret'.n = packet.BytesTransferred + accepted
             /\ ret'.flag = (ret'.n = HeaderSize + Len(packet.Data))
             /\ ~ret'.flag =>
                    /\ outboundPackets' =
                           <<[packet EXCEPT !.BytesTransferred = ret'.n]>>
                               \o Tail(outboundPackets)
                    /\ Stats' = Stats
             /\ ret'.flag => Stats'.bytesSent.Total = Stats.bytesSent.Total + ret'.n]_vars

\* the call that completed a GameAction packet of 7 bytes, after earlier
\* calls had sent a part of it: it offered the rest only and returned true
C14_Witness ==
    /\ ret.op = "SendPacket"
    /\ ret.flag
    /\ ret.n = 7
    /\ Len(ret.data) \in 1 .. 6
    /\ Stats.bytesSent.Commands = 7

\* the last element of a non-empty sequence
Last(seq) == seq[Len(seq)]

\* the bytes the ReceiveData calls before the last one delivered
RECURSIVE GotBefore(_)
GotBefore(calls) ==
    IF Len(calls) <= 1 THEN 0 ELSE Head(calls).got + GotBefore(Tail(calls))

C16_InboundReset ==
    /\ [][(ret.op = "ReadPacket" /\ ret.status = "Success" /\ ret'.op = "ReadPacket") =>
              (ret'.data # <<>> /\ ret'.data[1].size = HeaderSize)]_vars
    /\ [][(ret'.op = "ReadPacket" /\ ret'.status = "Success") => ret'.data # <<>>]_vars

\* C17 (empty-body completion): when the header that a ReadPacket call
\* completes has corrected size 0, that call returns Success and receives
\* nothing for the body; a size field of 0 to 4 on the wire is corrected to
\* 0, not below; and a receive that succeeds with 0 bytes, for the header
\* or for the body, makes ReadPacket return MoreData with BytesTransferred
\* and the body as they were before it.
C17_EmptyBody ==
    /\ [][(/\ ret'.op = "ReadPacket"
           /\ InboundPacket.BytesTransferred < HeaderSize
           /\ InboundPacket'.BytesTransferred >= HeaderSize
           /\ InboundPacket'.Header.Size = 0) =>
              (ret'.status = "Success" /\ Len(ret'.data) = 1)]_vars
    /\ [][(/\ ret'.op = "ReadPacket"
           /\ InboundPacket.BytesTransferred = 0
           /\ ret'.data # <<>>
           /\ ret'.data[1].status = "Success"
           /\ ret'.data[1].got = HeaderSize
           /\ BEU16(SubSeq(inStream, 1, 2)) <= IdSize) =>
              (InboundPacket'.Header.Size = 0 /\ ret'.status = "Success")]_vars
    /\ [][(/\ ret'.op = "ReadPacket"
           /\ ret'.data # <<>>
           /\ Last(ret'.data).status = "Success"
           /\ Last(ret'.data).got = 0) =>
              /\ ret'.status = "MoreData"
              /\ InboundPacket'.BytesTransferred =
                     InboundPacket.BytesTransferred + GotBefore(ret'.data)
              /\ InboundPacket'.Data = InboundPacket.Data]_vars

\* a header with the size field 2 arrived in one receive and the call
\* returned Success with corrected size 0, having made that one receive only
C17_Witness ==
    /\ ret.op = "ReadPacket"
    /\ ret.status = "Success"
    /\ ret.data = <<[size |-> HeaderSize, status |-> "Success", got |-> HeaderSize]>>
    /\ SubSeq(headerLog, 1, 2) = <<0, 2>>
    /\ InboundPacket.Header.Size = 0
    /\ InboundPacket.Data = <<>>

\* the complete packets at the front of a byte sequence, and what follows them
RECURSIVE WireSplit(_)
WireSplit(bytes) ==
    IF Len(bytes) >= 2 /\ BEU16(SubSeq(bytes, 1, 2)) >= IdSize
                      /\ Len(bytes) >= 2 + BEU16(SubSeq(bytes, 1, 2))
    THEN LET length == 2 + BEU16(SubSeq(bytes, 1, 2))
             split == WireSplit(Drop(bytes, length))
         IN [frames |-> <<Take(bytes, length)>> \o split.frames, rest |-> split.rest]
    ELSE [frames |-> <<>>, rest |-> bytes]

\* C18 (single in-flight packet): whatever the order of QueuePacket (front
\* or tail) and SendQueuedPackets calls, only the head of the queue can have
\* BytesTransferred > 0, and it is never sent in full while queued; the
\* bytes given to the transport are the serialisations of the packets that
\* left the queue, each complete, followed by the part of the head's
\* serialisation that was sent so far.
C18_SingleInFlight ==
    /\ \A i \in 2 .. Len(outboundPackets) : outboundPackets[i].BytesTransferred = 0
    /\ outboundPackets # <<>> =>
           Head(outboundPackets).BytesTransferred
               < HeaderSize + Len(Head(outboundPackets).Data)
    /\ LET split == WireSplit(wire)
       IN /\ Len(split.frames) = Len(queueLog) - Len(outboundPackets)
          /\ \A i \in 1 .. Len(split.frames) :
                 \E j \in 1 .. Len(queueLog) :
                     split.frames[i] = WireFormat(queueLog[j].command, queueLog[j].body)
          /\ split.rest =
                 IF outboundPackets = <<>> THEN <<>>
                 ELSE Take(WireFormat(Head(outboundPackets).Header.Id,
                                      Head(outboundPackets).Data),
                           Head(outboundPackets).BytesTransferred)

\* one packet has left the queue, the head is partly sent, and a packet
\* queued with front = true stands unsent behind it
C18_Witness ==
    /\ ret.op = "QueuePacket"
    /\ ret.status = "front"
    /\ ret.flag
    /\ Len(queueLog) = 3
    /\ Len(outboundPackets) = 2
    /\ Len(WireSplit(wire).frames) = 1
    /\ WireSplit(wire).rest # <<>>
    /\ outboundPackets[1].BytesTransferred = Len(WireSplit(wire).rest)
    /\ outboundPackets[2].BytesTransferred = 0

\* the body receives among the ReceiveData calls of a ReadPacket call that
\* started with `before` bytes transferred
BodyReceives(before, calls) == IF before >= HeaderSize THEN calls ELSE Tail(calls)

\* C19 (inbound reassembly invariant): with the inbound packet cleared
\* after every Success, once the header is complete BytesTransferred is
\* 6 + len(body) and len(body) is at most header.Size; a body receive asks
\* for at most min(header.Size - len(body), 65536) bytes; ReadPacket returns
\* Success exactly when the header is complete and len(body) = header.Size;
\* and it returns Disconnected or Error only when the socket did, so a
\* header that declares more than the peer sends gives MoreData.
C19_Reassembly ==
    /\ [](InboundPacket.BytesTransferred >= HeaderSize =>
             /\ InboundPacket.BytesTransferred = HeaderSize + Len(InboundPacket.Data)
             /\ Len(InboundPacket.Data) <= InboundPacket.Header.Size)
    /\ [][ret'.op = "ReadPacket" =>
              \A i \in 1 .. Len(BodyReceives(InboundPacket.BytesTransferred, ret'.data)) :
                  BodyReceives(InboundPacket.BytesTransferred, ret'.data)[i].size
                      <= Min(InboundPacket'.Header.Size - Len(InboundPacket.Data),
                             NetworkBufferSize)]_vars
    /\ [](ret.op = "ReadPacket" =>
             ((ret.status = "Success") =
                  (/\ InboundPacket.BytesTransferred >= HeaderSize
                   /\ Len(InboundPacket.Data) = InboundPacket.Header.Size)))
    /\ [](ret.op = "ReadPacket" /\ ret.status \in {"Disconnected", "Error"} =>
             (ret.data # <<>> /\ Last(ret.data).status = ret.status))

\* the peer declared two body bytes and sent one: the byte is in the body,
\* the socket has nothing more, a receive asking for the missing byte got
\* none, and ReadPacket returned MoreData
C19_Witness ==
    /\ ret.op = "ReadPacket"
    /\ ret.status = "MoreData"
    /\ ret.data = <<[size |-> 1, status |-> "Success", got |-> 0]>>
    /\ InboundPacket.Header.Size = 2
    /\ InboundPacket.Data = <<97>>
    /\ InboundPacket.BytesTransferred = HeaderSize + 1
    /\ inStream = <<>>

\* how often a byte sequence occurs in a sequence of byte sequences
RECURSIVE Occurrences(_, _)
Occurrences(x, seq) ==
    IF seq = <<>> THEN 0
    ELSE (IF Head(seq) = x THEN 1 ELSE 0) + Occurrences(x, Tail(seq))

\* the wire formats of the packets QueuePacket accepted
RECURSIVE WireFormats(_)
WireFormats(log) ==
    IF log = <<>> THEN <<>>
    ELSE <<WireFormat(Head(log).command, Head(log).body)>> \o WireFormats(Tail(log))

\* C20 (drain progress): a SendQueuedPackets call ends after at most one
\* SendPacket call per queued packet and one more, whatever the transport
\* accepts; when the transport accepts a byte again and again and no more
\* packets are queued, the queue becomes empty; and with the queue empty
\* every accepted packet is on the wire in full exactly once.
C20_DrainProgress ==
    /\ [](\A full \in 0 .. Len(outboundPackets) :
             \A part \in (IF full < Len(outboundPackets)
                          THEN 0 .. (BufferSize(outboundPackets[full + 1], littleEndian) - 1)
                          ELSE {0}) :
                 SendLoop([queue |-> outboundPackets, wire |-> <<>>, stats |-> Stats,
                           calls |-> 0], full, part, littleEndian).calls
                     <= Len(outboundPackets) + 1)
    /\ (outboundPackets # <<>>) ~> (outboundPackets = <<>>)
    /\ [](outboundPackets = <<>> =>
             /\ WireSplit(wire).rest = <<>>
             /\ Len(WireSplit(wire).frames) = Len(queueLog)
             /\ \A i \in 1 .. Len(queueLog) :
                    Occurrences(WireFormats(queueLog)[i], WireSplit(wire).frames)
                        = Occurrences(WireFormats(queueLog)[i], WireFormats(queueLog)))

\* two different packets were accepted and SendQueuedPackets has emptied the
\* queue, with both on the wire
C20_Witness ==
    /\ ret.op = "SendQueuedPackets"
    /\ Len(queueLog) = 2
    /\ queueLog[1].command # queueLog[2].command
    /\ outboundPackets = <<>>
    /\ Len(wire) = 13
    /\ Stats.bytesSent.Total = 13

====
